---- MODULE Spec2Model ----
(***************************************************************************)
(* A model of the gaze pipeline of nn_gaze_class: filter_behavior.py       *)
(* (metadata extraction, dose categories, saccade detection, saccade       *)
(* labelling) and load_data.py (per-file loaders).                         *)
(*                                                                         *)
(* Python lists and numpy arrays are sequences.  Python indices are        *)
(* 0-based and are kept 0-based wherever the program stores or returns     *)
(* them (start_stops, run, bucket members); the sequences themselves are   *)
(* indexed from 1, so element k of an array is seq[k + 1].                 *)
(***************************************************************************)
EXTENDS Integers, Sequences, FiniteSets, TLC

\* ------------------------------------------------------------------ bounds
MaxSessions == 2      \* sessions in labelled_gaze_positions
MaxRuns == 2          \* runs of a session
MaxSamples == 4       \* samples of a gaze trace
MaxPx == 1            \* largest x pixel coordinate
MaxPy == 0            \* largest y pixel coordinate
MaxTime == 3          \* largest run boundary, in seconds
MaxSliceSamples == 5  \* samples of the trace, when one session is sliced into runs
MaxSliceTime == 4     \* largest run boundary, when one session is sliced into runs
MaxLen == 4           \* length of the x and y handed to find_saccades
MaxDeg == 1           \* largest coordinate handed to find_saccades
MaxMinSamples == 2    \* largest min_samples handed to find_saccades
MaxN == 3             \* rows of the dose matrix
MaxDose == 1          \* largest dose
MaxMetaRuns == 1      \* most runs of a runs file, for extract_meta_info

VARIABLES
    \* extract_saccades_with_labels
    pc,                 \* where the function stands
    saccades,           \* the events collected so far
    saccade_labels,     \* the labels collected so far
    session_identifier, \* the session counter
    positions,          \* session[0] of the session being processed
    info,               \* session[1] of the session being processed
    time_vec,           \* its time vector
    run,                \* the run of the inner loop (0-based)
    hist_sessions,      \* history: category and num_runs of each input session
    hist_run_time,      \* history: the sample indices selected, per run of the session
    hist_origin,        \* history: <<input position, run>> of each event
    \* find_saccades
    fs_pc,              \* where the function stands
    x, y, sr, vel_thresh, min_samples, smooth_func,     \* its arguments
    x0, y0,             \* the smoothed traces
    vx, vy,             \* the velocities, as numerators over 2 * sr
    vel_norm,           \* the squares of the velocity norms, over (2 * sr)^2
    above_thresh,       \* the mask of the samples in the velocity band
    start_stops,        \* the intervals
    smooth_calls,       \* history: how often smooth_func was invoked
    \* get_unique_doses
    dose_pc,            \* where the function stands
    otnal_doses,        \* its argument
    unique_rows,
    indices_for_unique_rows,
    session_category,
    dose_i,             \* the i of enumerate(unique_rows)
    \* extract_meta_info, get_runs_data
    meta_pc,            \* where extract_meta_info stands
    meta_info_list,     \* the records appended so far
    hist_folders,       \* history: the folders of the session paths read so far
    runs_pc,            \* where get_runs_data stands
    runs_dict,          \* its result
    \* extract_labelled_gaze_positions_m1
    lg_pc,              \* where the function stands
    session_paths,      \* per session folder, what is found of its gaze file
    labelled_gaze_positions,    \* the list built so far
    dose_at,            \* position of the outer loop in zip(unique_doses, dose_inds)
    idx_at              \* position of the inner loop in indices_list

exVars == <<pc, saccades, saccade_labels, session_identifier, positions, info,
            time_vec, run, hist_sessions, hist_run_time, hist_origin>>
fsVars == <<fs_pc, x, y, sr, vel_thresh, min_samples, smooth_func, x0, y0, vx, vy,
            vel_norm, above_thresh, start_stops, smooth_calls>>
doseVars == <<dose_pc, otnal_doses, unique_rows, indices_for_unique_rows,
              session_category, dose_i>>

metaVars == <<meta_pc, meta_info_list, hist_folders, runs_pc, runs_dict>>

labelVars == <<lg_pc, session_paths, labelled_gaze_positions, dose_at, idx_at>>

vars == <<exVars, fsVars, doseVars, metaVars, labelVars>>

\* ------------------------------------------------------- generic helpers
\* The rows of seq at which the boolean mask holds, in order: numpy's
\* boolean-mask indexing a[mask].
BoolIndex(seq, mask) ==
    LET F[i \in 0..Len(seq)] ==
            IF i = 0 THEN <<>>
            ELSE IF mask[i] THEN Append(F[i - 1], seq[i]) ELSE F[i - 1]
    IN  F[Len(seq)]

\* Column c (1 or 2) of an n x 2 array.
Column(rows, c) == [i \in 1..Len(rows) |-> rows[i][c]]

\* Python's None and a present value, for a field that may hold either.
NoneSeq == [none |-> TRUE, val |-> <<>>]
NoneNum == [none |-> TRUE, val |-> 0]
NoneStr == [none |-> TRUE, val |-> ""]
Some(v) == [none |-> FALSE, val |-> v]

\* ------------------------------------------------------- util / defaults
\* util.create_timevec: n_samples timestamps spaced 1/sampling_rate from 0.
\* Times are integers counted in units of 1/TimeDen second.
TimeDen == 1
create_timevec(n_samples, sampling_rate) ==
    [i \in 1..n_samples |-> (i - 1) * (TimeDen \div sampling_rate)]

\* util.px2deg: a fixed linear calibration from pixels to degrees.
DegPerPx == 2
px2deg(px) == [i \in 1..Len(px) |-> DegPerPx * px[i]]

\* util.find_islands: the maximal runs of True of length >= min_length, as
\* (start, stop) pairs, stop inclusive, 0-based, in scan order.  i is the
\* sample being looked at and start the first sample of the open run (0: no
\* run is open), both counted from 1.
RECURSIVE IslandScan(_, _, _, _)
IslandScan(mask, i, start, min_length) ==
    LET closed == IF start > 0 /\ i - start >= min_length
                  THEN << <<start - 1, i - 2>> >> ELSE <<>>
    IN  IF i > Len(mask) THEN closed
        ELSE IF mask[i]
             THEN IslandScan(mask, i + 1, IF start > 0 THEN start ELSE i, min_length)
             ELSE closed \o IslandScan(mask, i + 1, 0, min_length)

find_islands(mask, min_length) == IslandScan(mask, 1, 0, min_length)

\* A smoothing function, applied by name.  "identity" leaves the trace as
\* it is; "movsum" is the same-size convolution with the kernel [1, 1, 1]
\* (zero padded), a three-sample moving window.
SmoothFuncs == {"identity", "movsum"}
ApplySmooth(smooth, a) ==
    IF smooth = "identity" THEN a
    ELSE [i \in 1..Len(a) |->
            (IF i > 1 THEN a[i - 1] ELSE 0) + a[i]
            + (IF i < Len(a) THEN a[i + 1] ELSE 0)]

\* defaults.fetch_default_saccade_pars.
DefaultMinSamples == 1
fetch_default_saccade_pars ==
    [vel_thresh |-> <<1, 4>>, min_samples |-> DefaultMinSamples,
     smooth_func |-> "movsum"]

\* ---------------------------------------------------------- find_saccades
\* Mutant of ShapesEqual: the assertion left out.
ShapesNotCompared(a, b) == TRUE

\* assert x.shape == y.shape
ShapesEqual(a, b) == Len(a) = Len(b)

\* np.gradient raises ValueError unless the array has at least two elements.
GradientRaises(f) == Len(f) < 2

\* np.gradient(f), second-order central differences inside and first-order
\* one-sided differences at both ends.  The values are halves of integers
\* and are carried doubled: Gradient2(f)[i] = 2 * np.gradient(f)[i - 1].
Gradient2(f) ==
    [i \in 1..Len(f) |->
        IF i = 1 THEN 2 * (f[2] - f[1])
        ELSE IF i = Len(f) THEN 2 * (f[i] - f[i - 1])
        ELSE f[i + 1] - f[i - 1]]

\* vel_norm = sqrt(vx**2 + vy**2) with vx = np.gradient(x0) / sr.  With the
\* gradients doubled, VelNormSq(gx2, gy2)[i] = (2 * sr * vel_norm[i - 1])^2.
VelNormSq(gx2, gy2) == [i \in 1..Len(gx2) |-> gx2[i] * gx2[i] + gy2[i] * gy2[i]]

\* vel_norm >= t and vel_norm <= t for a threshold t >= 0, on the squares.
NormGeq(vsq, rate, t) == vsq >= t * t * 4 * rate * rate
NormLeq(vsq, rate, t) == vsq <= t * t * 4 * rate * rate

\* Mutant of AboveThresh: the upper bound of the band excluded.
AboveThreshBelowUpper(vsq, rate, thresh) ==
    [i \in 1..Len(vsq) |->
        NormGeq(vsq[i], rate, thresh[1]) /\ ~NormGeq(vsq[i], rate, thresh[2])]

\* above_thresh = (vel_norm >= vel_thresh[0]) & (vel_norm <= vel_thresh[1])
AboveThresh(vsq, rate, thresh) ==
    [i \in 1..Len(vsq) |->
        NormGeq(vsq[i], rate, thresh[1]) /\ NormLeq(vsq[i], rate, thresh[2])]

\* find_saccades as one call: what it raises, or the intervals it returns.
find_saccades(xs, ys, rate, thresh, min_len, smooth) ==
    IF ~ShapesEqual(xs, ys)
    THEN [raised |-> "AssertionError", start_stops |-> <<>>]
    ELSE LET sx == ApplySmooth(smooth, xs)
             sy == ApplySmooth(smooth, ys)
         IN  IF GradientRaises(sx) \/ GradientRaises(sy)
             THEN [raised |-> "ValueError", start_stops |-> <<>>]
             ELSE LET vsq == VelNormSq(Gradient2(sx), Gradient2(sy))
                  IN  [raised |-> "no",
                       start_stops |->
                           find_islands(AboveThresh(vsq, rate, thresh), min_len)]

\* Mutant of extract_saccade_positions: the stop row left out of the slice.
SliceStopExcluded(run_positions, saccade_start_stops) ==
    [k \in 1..Len(saccade_start_stops) |->
        SubSeq(run_positions, saccade_start_stops[k][1] + 1,
               saccade_start_stops[k][2])]

\* extract_saccade_positions: run_positions[start:stop+1, :] per interval.
extract_saccade_positions(run_positions, saccade_start_stops) ==
    [k \in 1..Len(saccade_start_stops) |->
        SubSeq(run_positions, saccade_start_stops[k][1] + 1,
               saccade_start_stops[k][2] + 1)]

\* Mutants of RunTime: the stop excluded; the start included.
RunTimeStopExcluded(tv, run_start, run_stop) ==
    [i \in 1..Len(tv) |-> tv[i] > run_start /\ tv[i] < run_stop]
RunTimeStartIncluded(tv, run_start, run_stop) ==
    [i \in 1..Len(tv) |-> tv[i] >= run_start /\ tv[i] <= run_stop]

\* run_time = (time_vec > run_start) & (time_vec <= run_stop)
RunTime(tv, run_start, run_stop) ==
    [i \in 1..Len(tv) |-> tv[i] > run_start /\ tv[i] <= run_stop]

\* ------------------------------------------- extract_saccades_with_labels
GazePoints == (0..MaxPx) \X (0..MaxPy)
SampleRates == {1}
Categories == {0, 1}
\* The traces of at most n samples.
Traces(n) == UNION {[1..k -> GazePoints] : k \in 0..n}
\* The (start, stop) lists of at most MaxRuns runs with boundaries up to t;
\* a run's start is not after its stop.
Boundaries(t) ==
    UNION {[1..k -> {w \in (0..t) \X (0..t) : w[1] <= w[2]}] : k \in 0..MaxRuns}

\* The (positions, info) pairs of labelled_gaze_positions; of info, the
\* fields that extract_saccades_with_labels reads.  A session without runs
\* data has num_runs = 0 and startS = stopS = None.
NoInfo == [sampling_rate |-> 1, category |-> 0, num_runs |-> 0,
           startS |-> NoneSeq, stopS |-> NoneSeq]
SessionsOf(n, t) ==
    {<<p, [sampling_rate |-> rate, category |-> c, num_runs |-> Len(b),
           startS |-> Some([k \in 1..Len(b) |-> b[k][1]]),
           stopS |-> Some([k \in 1..Len(b) |-> b[k][2]])]>> :
        p \in Traces(n), rate \in SampleRates, c \in Categories, b \in Boundaries(t)}
    \cup {<<p, [NoInfo EXCEPT !.sampling_rate = rate, !.category = c]>> :
        p \in Traces(n), rate \in SampleRates, c \in Categories}
Sessions == SessionsOf(MaxSamples, MaxTime)
SliceSessions == SessionsOf(MaxSliceSamples, MaxSliceTime)

ExStart ==
    /\ pc = "session_loop"
    /\ saccades = <<>>
    /\ saccade_labels = <<>>
    /\ session_identifier = 0
    /\ positions = <<>>
    /\ info = NoInfo
    /\ time_vec = <<>>
    /\ run = 0
    /\ hist_sessions = <<>>
    /\ hist_run_time = <<>>
    /\ hist_origin = <<>>

\* for session in labelled_gaze_positions: the next session of the input.
ForSession(session) ==
    /\ pc = "session_loop"
    /\ session_identifier' = session_identifier + 1
    /\ positions' = session[1]
    /\ info' = session[2]
    /\ time_vec' = create_timevec(Len(session[1]), session[2].sampling_rate)
    /\ run' = 0
    /\ pc' = IF session[2].num_runs > 0 THEN "run_loop" ELSE "session_loop"
    /\ hist_sessions' = Append(hist_sessions,
            [category |-> session[2].category, num_runs |-> session[2].num_runs])
    /\ hist_run_time' = <<>>
    /\ UNCHANGED <<saccades, saccade_labels, hist_origin>>

\* Mutants of RunLabels: one label per run whatever it found; the ordinal
\* counted from 0.
RunLabelsOnePerRun(category, ident, r, n_saccades) == << <<category, ident, r>> >>
RunLabelsFromZero(category, ident, r, n_saccades) ==
    [k \in 1..n_saccades |-> <<category, ident - 1, r>>]

\* The label list of one run: [[category, session_identifier, run]] * n.
RunLabels(category, ident, r, n_saccades) ==
    [k \in 1..n_saccades |-> <<category, ident, r>>]

\* for run in range(n_runs): one iteration of the inner loop.
ForRun ==
    /\ pc = "run_loop"
    /\ IF info.startS.none \/ info.stopS.none
       THEN \* info['startS'][run] of None: TypeError
            /\ pc' = "raised"
            /\ UNCHANGED <<saccades, saccade_labels, run, hist_origin, hist_run_time>>
       ELSE
       LET pars == fetch_default_saccade_pars
           run_start == info.startS.val[run + 1]
           run_stop == info.stopS.val[run + 1]
           run_time == RunTime(time_vec, run_start, run_stop)
           run_positions == BoolIndex(positions, run_time)
           run_x == px2deg(Column(run_positions, 1))
           run_y == px2deg(Column(run_positions, 2))
           found == find_saccades(run_x, run_y, info.sampling_rate,
                                  pars.vel_thresh, pars.min_samples,
                                  pars.smooth_func)
           saccades_in_run == extract_saccade_positions(run_positions,
                                                        found.start_stops)
           n_saccades == Len(saccades_in_run)
       IN  /\ hist_run_time' =
                Append(hist_run_time, {i - 1 : i \in {j \in DOMAIN run_time : run_time[j]}})
           /\ IF found.raised # "no"
              THEN /\ pc' = "raised"
                   /\ UNCHANGED <<saccades, saccade_labels, run, hist_origin>>
              ELSE /\ saccades' = saccades \o saccades_in_run
                   /\ saccade_labels' = saccade_labels \o
                        RunLabels(info.category, session_identifier, run, n_saccades)
                   /\ hist_origin' = hist_origin \o
                        [k \in 1..n_saccades |-> <<Len(hist_sessions), run>>]
                   /\ run' = run + 1
                   /\ pc' = IF run + 1 < info.num_runs THEN "run_loop"
                            ELSE "session_loop"
    /\ UNCHANGED <<session_identifier, positions, info, time_vec, hist_sessions>>

\* The input is exhausted: assert len(saccades) == len(saccade_labels); return.
Return ==
    /\ pc = "session_loop"
    /\ pc' = IF Len(saccades) = Len(saccade_labels) THEN "returned" ELSE "raised"
    /\ UNCHANGED <<saccades, saccade_labels, session_identifier, positions, info,
                   time_vec, run, hist_sessions, hist_run_time, hist_origin>>

\* ------------------------------------------------ find_saccades, by line
FsIdle ==
    /\ fs_pc = "idle"
    /\ x = <<>> /\ y = <<>> /\ sr = 1 /\ vel_thresh = <<0, 0>>
    /\ min_samples = 1 /\ smooth_func = "identity"
    /\ x0 = <<>> /\ y0 = <<>> /\ vx = <<>> /\ vy = <<>>
    /\ vel_norm = <<>> /\ above_thresh = <<>> /\ start_stops = <<>>
    /\ smooth_calls = 0

DegSeqs == UNION {[1..n -> 0..MaxDeg] : n \in 0..MaxLen}
FsRates == {1, 2}
VelThreshs == {<<0, 0>>, <<0, 1>>, <<1, 1>>, <<1, 2>>, <<2, 1>>}

\* A call of find_saccades with arguments from the bounded sets.
FsCall ==
    /\ fs_pc = "assert"
    /\ x \in DegSeqs /\ y \in DegSeqs /\ sr \in FsRates
    /\ vel_thresh \in VelThreshs /\ min_samples \in 1..MaxMinSamples
    /\ smooth_func \in SmoothFuncs
    /\ x0 = <<>> /\ y0 = <<>> /\ vx = <<>> /\ vy = <<>>
    /\ vel_norm = <<>> /\ above_thresh = <<>> /\ start_stops = <<>>
    /\ smooth_calls = 0

\* assert x.shape == y.shape; start_stops = []
FsAssert ==
    /\ fs_pc = "assert"
    /\ fs_pc' = IF ShapesEqual(x, y) THEN "smooth_x" ELSE "raised"
    /\ UNCHANGED <<x, y, sr, vel_thresh, min_samples, smooth_func, x0, y0, vx, vy,
                   vel_norm, above_thresh, start_stops, smooth_calls>>

\* x0 = smooth_func(x)
FsSmoothX ==
    /\ fs_pc = "smooth_x"
    /\ x0' = ApplySmooth(smooth_func, x)
    /\ smooth_calls' = smooth_calls + 1
    /\ fs_pc' = "smooth_y"
    /\ UNCHANGED <<x, y, sr, vel_thresh, min_samples, smooth_func, y0, vx, vy,
                   vel_norm, above_thresh, start_stops>>

\* y0 = smooth_func(y)
FsSmoothY ==
    /\ fs_pc = "smooth_y"
    /\ y0' = ApplySmooth(smooth_func, y)
    /\ smooth_calls' = smooth_calls + 1
    /\ fs_pc' = "gradient_x"
    /\ UNCHANGED <<x, y, sr, vel_thresh, min_samples, smooth_func, x0, vx, vy,
                   vel_norm, above_thresh, start_stops>>

\* vx = np.gradient(x0) / sr
FsGradientX ==
    /\ fs_pc = "gradient_x"
    /\ IF GradientRaises(x0)
       THEN fs_pc' = "raised" /\ vx' = vx
       ELSE fs_pc' = "gradient_y" /\ vx' = Gradient2(x0)
    /\ UNCHANGED <<x, y, sr, vel_thresh, min_samples, smooth_func, x0, y0, vy,
                   vel_norm, above_thresh, start_stops, smooth_calls>>

\* vy = np.gradient(y0) / sr
FsGradientY ==
    /\ fs_pc = "gradient_y"
    /\ IF GradientRaises(y0)
       THEN fs_pc' = "raised" /\ vy' = vy
       ELSE fs_pc' = "vel_norm" /\ vy' = Gradient2(y0)
    /\ UNCHANGED <<x, y, sr, vel_thresh, min_samples, smooth_func, x0, y0, vx,
                   vel_norm, above_thresh, start_stops, smooth_calls>>

\* vel_norm = np.sqrt(vx**2 + vy**2); arrays of different lengths (both of
\* two or more elements) do not broadcast: ValueError.
FsVelNorm ==
    /\ fs_pc = "vel_norm"
    /\ IF Len(vx) # Len(vy)
       THEN fs_pc' = "raised" /\ vel_norm' = vel_norm
       ELSE fs_pc' = "above_thresh" /\ vel_norm' = VelNormSq(vx, vy)
    /\ UNCHANGED <<x, y, sr, vel_thresh, min_samples, smooth_func, x0, y0, vx, vy,
                   above_thresh, start_stops, smooth_calls>>

\* above_thresh = (vel_norm >= vel_thresh[0]) & (vel_norm <= vel_thresh[1])
FsAboveThresh ==
    /\ fs_pc = "above_thresh"
    /\ above_thresh' = AboveThresh(vel_norm, sr, vel_thresh)
    /\ fs_pc' = "find_islands"
    /\ UNCHANGED <<x, y, sr, vel_thresh, min_samples, smooth_func, x0, y0, vx, vy,
                   vel_norm, start_stops, smooth_calls>>

\* start_stops = util.find_islands(above_thresh, min_samples); return start_stops
FsFindIslands ==
    /\ fs_pc = "find_islands"
    /\ start_stops' = find_islands(above_thresh, min_samples)
    /\ fs_pc' = "returned"
    /\ UNCHANGED <<x, y, sr, vel_thresh, min_samples, smooth_func, x0, y0, vx, vy,
                   vel_norm, above_thresh, smooth_calls>>

\* ------------------------------------------------------ get_unique_doses
\* A float: a number or NaN.
NaN == [nan |-> TRUE, val |-> 0]
Num(v) == [nan |-> FALSE, val |-> v]
\* a == b on floats: NaN equals nothing, itself included.
FloatEq(a, b) == ~a.nan /\ ~b.nan /\ a.val = b.val
\* The order of a sort of floats: NaN comes after every number.
FloatBefore(a, b) == ~a.nan /\ (b.nan \/ a.val < b.val)
\* The same bit pattern (what a sort cannot tell apart).
FloatSame(a, b) == a.nan = b.nan /\ (a.nan \/ a.val = b.val)

\* (a == b).all() on rows.
RowEq(a, b) == FloatEq(a[1], b[1]) /\ FloatEq(a[2], b[2])
\* The lexicographic order of the rows in np.unique's sort.
RowBefore(a, b) ==
    \/ FloatBefore(a[1], b[1])
    \/ FloatSame(a[1], b[1]) /\ FloatBefore(a[2], b[2])

\* The rows sorted lexicographically (insertion sort).
RECURSIVE InsertRow(_, _)
InsertRow(sorted, row) ==
    IF sorted = <<>> THEN <<row>>
    ELSE IF RowBefore(row, Head(sorted)) THEN <<row>> \o sorted
    ELSE <<Head(sorted)>> \o InsertRow(Tail(sorted), row)
RECURSIVE SortRows(_)
SortRows(rows) ==
    IF rows = <<>> THEN <<>>
    ELSE InsertRow(SortRows(Tail(rows)), Head(rows))

\* np.unique(otnal_doses, axis=0): the sorted rows, each kept when it
\* differs (!=) from the row before it.
NpUniqueRows(rows) ==
    LET s == SortRows(rows)
    IN  BoolIndex(s, [k \in 1..Len(s) |-> k = 1 \/ ~RowEq(s[k], s[k - 1])])

\* np.where((otnal_doses == row).all(axis=1))[0].tolist(), ascending.
IndicesForRow(doses, row) ==
    BoolIndex([n \in 1..Len(doses) |-> n - 1],
              [n \in 1..Len(doses) |-> RowEq(doses[n], row)])

DoseVals == {Num(v) : v \in 0..MaxDose} \cup {NaN}
DoseMatrices == UNION {[1..n -> DoseVals \X DoseVals] : n \in 0..MaxN}

DoseIdle ==
    /\ dose_pc = "idle"
    /\ otnal_doses = <<>>
    /\ unique_rows = <<>>
    /\ indices_for_unique_rows = <<>>
    /\ session_category = <<>>
    /\ dose_i = 0

DoseCall ==
    /\ dose_pc = "unique"
    /\ otnal_doses \in DoseMatrices
    /\ unique_rows = <<>>
    /\ indices_for_unique_rows = <<>>
    /\ session_category = <<>>
    /\ dose_i = 0

\* unique_rows = np.unique(...); indices_for_unique_rows = [];
\* session_category = np.empty(N); session_category[:] = np.nan
DoseUnique ==
    /\ dose_pc = "unique"
    /\ unique_rows' = NpUniqueRows(otnal_doses)
    /\ indices_for_unique_rows' = <<>>
    /\ session_category' = [n \in 1..Len(otnal_doses) |-> NaN]
    /\ dose_i' = 0
    /\ dose_pc' = "rows"
    /\ UNCHANGED otnal_doses

\* One iteration of: for i, row in enumerate(unique_rows).
DoseRow ==
    /\ dose_pc = "rows"
    /\ dose_i < Len(unique_rows)
    /\ LET category == dose_i
           indices_for_row == IndicesForRow(otnal_doses, unique_rows[dose_i + 1])
       IN  /\ session_category' =
                [n \in 1..Len(session_category) |->
                    IF \E k \in 1..Len(indices_for_row) : indices_for_row[k] = n - 1
                    THEN Num(category) ELSE session_category[n]]
           /\ indices_for_unique_rows' = Append(indices_for_unique_rows, indices_for_row)
    /\ dose_i' = dose_i + 1
    /\ UNCHANGED <<dose_pc, otnal_doses, unique_rows>>

\* return unique_rows, indices_for_unique_rows, session_category
DoseReturn ==
    /\ dose_pc = "rows"
    /\ dose_i = Len(unique_rows)
    /\ dose_pc' = "returned"
    /\ UNCHANGED <<otnal_doses, unique_rows, indices_for_unique_rows,
                   session_category, dose_i>>

\* ---------------------------------------- extract_meta_info, get_runs_data
\* What glob and loadmat find of one kind of file in a session folder:
\* n_files files match the pattern; load tells what reading the file does:
\* "ok" (content is what it holds), "error" (loadmat or a field access
\* raises) or "no_key" (the top-level key is absent).  Only a folder with
\* one matching file is read; of the others one state each is kept.
FileStates(contents) ==
    LET any == CHOOSE c \in contents : TRUE
    IN  {[n_files |-> 0, load |-> "error", content |-> any],
         [n_files |-> 2, load |-> "ok", content |-> any],
         [n_files |-> 1, load |-> "error", content |-> any],
         [n_files |-> 1, load |-> "no_key", content |-> any]}
        \cup {[n_files |-> 1, load |-> "ok", content |-> c] : c \in contents}

\* (OT_dose, NAL_dose) of a metaInfo file.
DosePairs == (0..MaxDose) \X (0..MaxDose)
\* The runs of a runs file: at most MaxMetaRuns (startS, stopS) pairs.
MetaWindows == {w \in (0..MaxTime) \X (0..MaxTime) : w[1] = 0 /\ w[2] > 0}
RunLists == UNION {[1..k -> MetaWindows] : k \in 0..MaxMetaRuns}
\* A session folder: its *metaInfo.mat, *runs.mat and *M1_farPlaneCal.mat.
Folders == [metaInfo : FileStates(DosePairs), runs : FileStates(RunLists),
            farPlaneCal : FileStates({"farPlaneCal"})]

\* len(file_list) == 1
HasOneFile(file) == file.n_files = 1

\* util.calculate_roi_bounding_boxes: the four boxes of the landmarks.
calculate_roi_bounding_boxes(m1_landmarks) ==
    <<"eye_bbox", "face_bbox", "left_obj_bbox", "right_obj_bbox">>

\* The three blocks of the loop body of extract_meta_info: the fields each
\* adds to meta_info.  With info absent, info[0][0] raises and the except
\* clause sets the fields to None.
InfoFields(file) ==
    IF HasOneFile(file) /\ file.load = "ok"
    THEN [monkey_1 |-> Some("monkey_1"), monkey_2 |-> Some("monkey_2"),
          OT_dose |-> Some(file.content[1]), NAL_dose |-> Some(file.content[2])]
    ELSE [monkey_1 |-> NoneStr, monkey_2 |-> NoneStr,
          OT_dose |-> NoneNum, NAL_dose |-> NoneNum]
RunsFields(file) ==
    IF HasOneFile(file) /\ file.load = "ok"
    THEN [startS |-> Some([k \in 1..Len(file.content) |-> file.content[k][1]]),
          stopS |-> Some([k \in 1..Len(file.content) |-> file.content[k][2]]),
          num_runs |-> Len(file.content)]
    ELSE [startS |-> NoneSeq, stopS |-> NoneSeq, num_runs |-> 0]
BboxFields(file) ==
    IF HasOneFile(file) /\ file.load = "ok"
    THEN LET boxes == calculate_roi_bounding_boxes(file.content)
         IN  [eye_bbox |-> Some(boxes[1]), face_bbox |-> Some(boxes[2]),
              left_obj_bbox |-> Some(boxes[3]), right_obj_bbox |-> Some(boxes[4])]
    ELSE [eye_bbox |-> NoneStr, face_bbox |-> NoneStr,
          left_obj_bbox |-> NoneStr, right_obj_bbox |-> NoneStr]

\* The meta_info of one session path; session_name is the position of the
\* path in session_paths.
MetaInfoOf(session_name, folder) ==
    LET i == InfoFields(folder.metaInfo)
        r == RunsFields(folder.runs)
        b == BboxFields(folder.farPlaneCal)
    IN  [session_name |-> session_name,
         monkey_1 |-> i.monkey_1, monkey_2 |-> i.monkey_2,
         OT_dose |-> i.OT_dose, NAL_dose |-> i.NAL_dose,
         startS |-> r.startS, stopS |-> r.stopS, num_runs |-> r.num_runs,
         eye_bbox |-> b.eye_bbox, face_bbox |-> b.face_bbox,
         left_obj_bbox |-> b.left_obj_bbox, right_obj_bbox |-> b.right_obj_bbox]

\* A dict of get_runs_data: keys is its key set, the other fields the values
\* of the keys it has.
EmptyDict == [keys |-> {}, startS |-> <<>>, stopS |-> <<>>, num_runs |-> 0]
\* load_data.get_runs_data: {} unless the one runs file holds runs.
get_runs_data(file) ==
    IF file.n_files # 1 THEN EmptyDict
    ELSE IF file.load = "ok"
    THEN [keys |-> {"startS", "stopS", "num_runs"},
          startS |-> [k \in 1..Len(file.content) |-> file.content[k][1]],
          stopS |-> [k \in 1..Len(file.content) |-> file.content[k][2]],
          num_runs |-> Len(file.content)]
    ELSE EmptyDict

MetaIdle ==
    /\ meta_pc = "idle"
    /\ meta_info_list = <<>>
    /\ hist_folders = <<>>
    /\ runs_pc = "idle"
    /\ runs_dict = EmptyDict

\* Before either function has run.
MetaCall ==
    /\ meta_pc = "session_loop"
    /\ meta_info_list = <<>>
    /\ hist_folders = <<>>
    /\ runs_pc = "call"
    /\ runs_dict = EmptyDict

\* for session_path in session_paths: the whole loop body.
MetaForSession(folder) ==
    /\ meta_pc = "session_loop"
    /\ runs_pc = "call"
    /\ meta_info_list' =
            Append(meta_info_list, MetaInfoOf(Len(meta_info_list) + 1, folder))
    /\ hist_folders' = Append(hist_folders, folder)
    /\ UNCHANGED <<meta_pc, runs_pc, runs_dict>>

\* return meta_info_list
MetaReturn ==
    /\ meta_pc = "session_loop"
    /\ runs_pc = "call"
    /\ meta_pc' = "returned"
    /\ UNCHANGED <<meta_info_list, hist_folders, runs_pc, runs_dict>>

\* One call of get_runs_data, on the folder of a session path.
GetRunsData(file) ==
    /\ runs_pc = "call"
    /\ meta_pc = "session_loop"
    /\ meta_info_list = <<>>
    /\ runs_dict' = get_runs_data(file)
    /\ runs_pc' = "returned"
    /\ hist_folders' = <<[metaInfo |-> CHOOSE f \in FileStates(DosePairs) : TRUE,
                          runs |-> file,
                          farPlaneCal |-> CHOOSE f \in FileStates({"farPlaneCal"}) : TRUE]>>
    /\ UNCHANGED <<meta_pc, meta_info_list>>

\* The gaze traces handed over with the records: gaze resting on one point.
MetaTraces == {[i \in 1..MaxSamples |-> <<v, 0>>] : v \in 0..MaxPx}
\* extract_labelled_gaze_positions_m1: (gaze_positions, meta_info), meta_info
\* updated with sampling_rate and category; of meta_info the fields that
\* extract_saccades_with_labels reads.
LabelledSession(gaze_positions, meta_info, sampling_rate, category) ==
    <<gaze_positions,
      [sampling_rate |-> sampling_rate, category |-> category,
       num_runs |-> meta_info.num_runs,
       startS |-> meta_info.startS, stopS |-> meta_info.stopS]>>

\* ------------------------------------ extract_labelled_gaze_positions_m1
\* What is found of the *M1_gaze.mat file of a session folder.
GazeFiles == FileStates(MetaTraces)

\* Mutant of GazeLoaded: the first of several gaze files is read.
GazeLoadedFirstOfSeveral(file) == file.n_files >= 1 /\ file.load = "ok"
\* len(mat_files) == 1, and the try block loads the file.
GazeLoaded(file) == HasOneFile(file) /\ file.load = "ok"

\* meta_info.update({'sampling_rate': ..., 'category': ...})
UpdateMetaInfo(meta_info, sampling_rate, category) ==
    [f \in DOMAIN meta_info \cup {"sampling_rate", "category"} |->
        IF f = "sampling_rate" THEN sampling_rate
        ELSE IF f = "category" THEN category
        ELSE meta_info[f]]

\* The folder of session n when every metadata file is read: its doses are
\* row n of the dose matrix, its runs the one run (0, MaxTime].
LabelFolder(n) ==
    [metaInfo |-> [n_files |-> 1, load |-> "ok", content |-> otnal_doses[n]],
     runs |-> [n_files |-> 1, load |-> "ok", content |-> << <<0, MaxTime>> >>],
     farPlaneCal |-> [n_files |-> 1, load |-> "ok", content |-> "farPlaneCal"]]

LabelIdle ==
    /\ lg_pc = "idle"
    /\ session_paths = <<>>
    /\ labelled_gaze_positions = <<>>
    /\ dose_at = 0
    /\ idx_at = 0

\* The arguments: one folder per row of the dose matrix, and the records
\* extract_meta_info made of them.
LabelCall ==
    /\ lg_pc = "dose_loop"
    /\ session_paths \in [1..Len(otnal_doses) -> GazeFiles]
    /\ labelled_gaze_positions = <<>>
    /\ dose_at = 0
    /\ idx_at = 0
    /\ meta_pc = "returned"
    /\ hist_folders = [n \in 1..Len(otnal_doses) |-> LabelFolder(n)]
    /\ meta_info_list = [n \in 1..Len(otnal_doses) |-> MetaInfoOf(n, LabelFolder(n))]
    /\ runs_pc = "idle"
    /\ runs_dict = EmptyDict

\* for idx in indices_list: one iteration, for the idx at idx_at.
LgForIdx ==
    /\ lg_pc = "dose_loop"
    /\ dose_pc = "returned"
    /\ dose_at < Len(indices_for_unique_rows)
    /\ idx_at < Len(indices_for_unique_rows[dose_at + 1])
    /\ LET idx == indices_for_unique_rows[dose_at + 1][idx_at + 1]
           file == session_paths[idx + 1]
           meta_info == UpdateMetaInfo(meta_info_list[idx + 1], 1,
                                       session_category[idx + 1])
       IN  IF GazeLoaded(file)
           THEN /\ meta_info_list' = [meta_info_list EXCEPT ![idx + 1] = meta_info]
                /\ labelled_gaze_positions' =
                        Append(labelled_gaze_positions, <<file.content, meta_info>>)
           ELSE UNCHANGED <<meta_info_list, labelled_gaze_positions>>
    /\ idx_at' = idx_at + 1
    /\ UNCHANGED <<lg_pc, session_paths, dose_at, meta_pc, hist_folders, runs_pc,
                   runs_dict>>

\* indices_list is exhausted: the next (dose, indices_list) of the zip.
LgNextDose ==
    /\ lg_pc = "dose_loop"
    /\ dose_pc = "returned"
    /\ dose_at < Len(indices_for_unique_rows)
    /\ idx_at = Len(indices_for_unique_rows[dose_at + 1])
    /\ dose_at' = dose_at + 1
    /\ idx_at' = 0
    /\ UNCHANGED <<lg_pc, session_paths, labelled_gaze_positions, metaVars>>

\* return labelled_gaze_positions
LgReturn ==
    /\ lg_pc = "dose_loop"
    /\ dose_pc = "returned"
    /\ dose_at = Len(indices_for_unique_rows)
    /\ lg_pc' = "returned"
    /\ UNCHANGED <<session_paths, labelled_gaze_positions, dose_at, idx_at, metaVars>>

\* -------------------------------------------------------- specifications
\* extract_saccades_with_labels on every list of at most MaxSessions sessions.
InitExtract == ExStart /\ FsIdle /\ DoseIdle /\ MetaIdle /\ LabelIdle
NextExtract ==
    \/ /\ session_identifier < MaxSessions
       /\ \E session \in Sessions : ForSession(session)
       /\ UNCHANGED <<fsVars, doseVars, metaVars, labelVars>>
    \/ ForRun /\ UNCHANGED <<fsVars, doseVars, metaVars, labelVars>>
    \/ Return /\ UNCHANGED <<fsVars, doseVars, metaVars, labelVars>>
SpecExtract == InitExtract /\ [][NextExtract]_vars

\* extract_saccades_with_labels on every one-session list, the session with
\* a longer trace.
NextSlice ==
    \/ /\ session_identifier < 1
       /\ \E session \in SliceSessions : ForSession(session)
       /\ UNCHANGED <<fsVars, doseVars, metaVars, labelVars>>
    \/ ForRun /\ UNCHANGED <<fsVars, doseVars, metaVars, labelVars>>
    \/ Return /\ UNCHANGED <<fsVars, doseVars, metaVars, labelVars>>
SpecSlice == InitExtract /\ [][NextSlice]_vars

\* find_saccades on every argument list of the bounded sets.
InitSacc == ExStart /\ FsCall /\ DoseIdle /\ MetaIdle /\ LabelIdle
NextSacc ==
    \/ FsAssert /\ UNCHANGED <<exVars, doseVars, metaVars, labelVars>>
    \/ FsSmoothX /\ UNCHANGED <<exVars, doseVars, metaVars, labelVars>>
    \/ FsSmoothY /\ UNCHANGED <<exVars, doseVars, metaVars, labelVars>>
    \/ FsGradientX /\ UNCHANGED <<exVars, doseVars, metaVars, labelVars>>
    \/ FsGradientY /\ UNCHANGED <<exVars, doseVars, metaVars, labelVars>>
    \/ FsVelNorm /\ UNCHANGED <<exVars, doseVars, metaVars, labelVars>>
    \/ FsAboveThresh /\ UNCHANGED <<exVars, doseVars, metaVars, labelVars>>
    \/ FsFindIslands /\ UNCHANGED <<exVars, doseVars, metaVars, labelVars>>
SpecSacc == InitSacc /\ [][NextSacc]_vars

\* get_unique_doses on every dose matrix of at most MaxN rows.
InitDose == ExStart /\ FsIdle /\ DoseCall /\ MetaIdle /\ LabelIdle
NextDose ==
    \/ DoseUnique /\ UNCHANGED <<exVars, fsVars, metaVars, labelVars>>
    \/ DoseRow /\ UNCHANGED <<exVars, fsVars, metaVars, labelVars>>
    \/ DoseReturn /\ UNCHANGED <<exVars, fsVars, metaVars, labelVars>>
SpecDose == InitDose /\ [][NextDose]_vars

\* extract_meta_info on every list of at most MaxSessions session folders,
\* its records then handed to extract_saccades_with_labels; or one call of
\* get_runs_data.
InitMeta == ExStart /\ FsIdle /\ DoseIdle /\ MetaCall /\ LabelIdle
NextMeta ==
    \/ /\ Len(meta_info_list) < MaxSessions
       /\ \E folder \in Folders : MetaForSession(folder)
       /\ UNCHANGED <<exVars, fsVars, doseVars, labelVars>>
    \/ MetaReturn /\ UNCHANGED <<exVars, fsVars, doseVars, labelVars>>
    \/ /\ \E file \in FileStates(RunLists) : GetRunsData(file)
       /\ UNCHANGED <<exVars, fsVars, doseVars, labelVars>>
    \/ /\ meta_pc = "returned"
       /\ session_identifier < Len(meta_info_list)
       /\ \E p \in MetaTraces : \E c \in Categories :
            ForSession(LabelledSession(p, meta_info_list[session_identifier + 1], 1, c))
       /\ UNCHANGED <<fsVars, doseVars, metaVars, labelVars>>
    \/ /\ meta_pc = "returned"
       /\ ForRun
       /\ UNCHANGED <<fsVars, doseVars, metaVars, labelVars>>
    \/ /\ meta_pc = "returned"
       /\ session_identifier = Len(meta_info_list)
       /\ Return
       /\ UNCHANGED <<fsVars, doseVars, metaVars, labelVars>>
SpecMeta == InitMeta /\ [][NextMeta]_vars

\* get_unique_doses on the dose matrix of at most MaxN sessions, then
\* extract_labelled_gaze_positions_m1 on its results, then
\* extract_saccades_with_labels on the list.
InitLabel == ExStart /\ FsIdle /\ DoseCall /\ LabelCall
NextLabel ==
    \/ DoseUnique /\ UNCHANGED <<exVars, fsVars, metaVars, labelVars>>
    \/ DoseRow /\ UNCHANGED <<exVars, fsVars, metaVars, labelVars>>
    \/ DoseReturn /\ UNCHANGED <<exVars, fsVars, metaVars, labelVars>>
    \/ LgForIdx /\ UNCHANGED <<exVars, fsVars, doseVars>>
    \/ LgNextDose /\ UNCHANGED <<exVars, fsVars, doseVars>>
    \/ LgReturn /\ UNCHANGED <<exVars, fsVars, doseVars>>
    \/ /\ lg_pc = "returned"
       /\ session_identifier < Len(labelled_gaze_positions)
       /\ ForSession(labelled_gaze_positions[session_identifier + 1])
       /\ UNCHANGED <<fsVars, doseVars, metaVars, labelVars>>
    \/ /\ lg_pc = "returned"
       /\ ForRun
       /\ UNCHANGED <<fsVars, doseVars, metaVars, labelVars>>
    \/ /\ lg_pc = "returned"
       /\ session_identifier = Len(labelled_gaze_positions)
       /\ Return
       /\ UNCHANGED <<fsVars, doseVars, metaVars, labelVars>>
SpecLabel == InitLabel /\ [][NextLabel]_vars

\* ------------------------------------------------------------ properties
\* The samples (0-based) a boolean mask selects.
Selected(mask) == {i - 1 : i \in {j \in DOMAIN mask : mask[j]}}

\* C1: extract_saccades_with_labels holds as many labels as events after
\* every run iteration and when it returns, and returns two empty
\* collections for the empty list of sessions.
C1_EventsAndLabelsSameLength ==
    /\ Len(saccades) = Len(saccade_labels)
    /\ (pc = "returned" /\ session_identifier = 0)
            => (saccades = <<>> /\ saccade_labels = <<>>)

\* Two sessions were processed, the list was returned, and one run
\* contributed more than one event.
C1_Witness ==
    /\ pc = "returned"
    /\ session_identifier = 2
    /\ \E i \in 1..Len(saccade_labels) : \E j \in 1..Len(saccade_labels) :
            i # j /\ saccade_labels[i] = saccade_labels[j]
    /\ \E k \in 1..Len(hist_sessions) : hist_sessions[k].num_runs = 0

\* C2: the i-th label is (category, ordinal, run) of the session and run
\* in which the i-th event was detected, the ordinal being the 1-based
\* position of the session in the input, counted also over sessions
\* without runs or events; the labels are ordered by ordinal and, within a
\* session, by run.
C2_LabelsFollowInputOrder ==
    /\ session_identifier = Len(hist_sessions)
    /\ Len(hist_origin) = Len(saccades)
    /\ \A i \in 1..Len(saccade_labels) :
            /\ i <= Len(hist_origin)
            /\ saccade_labels[i] =
                    <<hist_sessions[hist_origin[i][1]].category,
                      hist_origin[i][1], hist_origin[i][2]>>
            /\ saccade_labels[i][2] \in 1..Len(hist_sessions)
            /\ saccade_labels[i][3] \in
                    0..(hist_sessions[saccade_labels[i][2]].num_runs - 1)
    /\ \A i \in 1..Len(saccade_labels) : \A j \in 1..Len(saccade_labels) :
            i < j =>
                /\ saccade_labels[i][2] <= saccade_labels[j][2]
                /\ saccade_labels[i][2] = saccade_labels[j][2]
                        => saccade_labels[i][3] <= saccade_labels[j][3]

\* The first session had no run, and the second, of another category, has
\* events in its runs 0 and 1.
C2_Witness ==
    /\ pc = "returned"
    /\ Len(hist_sessions) = 2
    /\ hist_sessions[1].num_runs = 0
    /\ hist_sessions[1].category # hist_sessions[2].category
    /\ \E i \in 1..Len(saccade_labels) :
            saccade_labels[i] = <<hist_sessions[2].category, 2, 0>>
    /\ \E i \in 1..Len(saccade_labels) :
            saccade_labels[i] = <<hist_sessions[2].category, 2, 1>>

\* C3: the samples selected for a run are exactly those with
\* run_start < t <= run_stop; of the time vector [0, 1, 2, 3, 4] with
\* run_start = 1 and run_stop = 3 they are the samples 2 and 3.
C3_RunSamplesLeftOpenRightClosed ==
    /\ \A r \in 1..Len(hist_run_time) :
            /\ hist_run_time[r] =
                    {i \in 0..(Len(time_vec) - 1) :
                        /\ info.startS.val[r] < time_vec[i + 1]
                        /\ time_vec[i + 1] <= info.stopS.val[r]}
            /\ \A i \in 0..(Len(time_vec) - 1) :
                    /\ time_vec[i + 1] = info.startS.val[r] => i \notin hist_run_time[r]
                    /\ (time_vec[i + 1] = info.stopS.val[r]
                        /\ info.startS.val[r] < info.stopS.val[r])
                            => i \in hist_run_time[r]
    /\ Selected(RunTime(<<0, 1, 2, 3, 4>>, 1, 3)) = {2, 3}

\* A run from 1 to 3 over samples at 0, 1, 2, 3, 4 went through: the sample
\* at the start is left out and the sample at the stop is taken.
C3_Witness ==
    /\ pc = "session_loop"
    /\ Len(hist_run_time) = 1
    /\ time_vec = <<0, 1, 2, 3, 4>>
    /\ info.startS.val[1] = 1
    /\ info.stopS.val[1] = 3
    /\ hist_run_time[1] = {2, 3}

\* C4: when every run of the session stops no later than the next one
\* starts, no sample is selected into two runs.
C4_RunsShareNoSample ==
    (/\ ~info.startS.none
     /\ \A r \in 1..(info.num_runs - 1) :
            info.stopS.val[r] <= info.startS.val[r + 1])
    => \A a \in 1..Len(hist_run_time) : \A b \in 1..Len(hist_run_time) :
            a # b => hist_run_time[a] \cap hist_run_time[b] = {}

\* Two runs went through, the second starting at the sample at which the
\* first stops: that sample is in the first run only.
C4_Witness ==
    /\ pc = "session_loop"
    /\ Len(hist_run_time) = 2
    /\ info.stopS.val[1] = info.startS.val[2]
    /\ hist_run_time[2] # {}
    /\ \E i \in hist_run_time[1] :
            /\ time_vec[i + 1] = info.stopS.val[1]
            /\ i \notin hist_run_time[2]

\* The bucket (1-based position in indices_for_unique_rows) holds index n.
InBucket(k, n) ==
    \E j \in 1..Len(indices_for_unique_rows[k]) : indices_for_unique_rows[k][j] = n

RECURSIVE SumOfSizes(_)
SumOfSizes(buckets) ==
    IF buckets = <<>> THEN 0 ELSE Len(Head(buckets)) + SumOfSizes(Tail(buckets))

\* C5 (as claimed): for every N x 2 dose matrix the returned buckets
\* partition the indices 0..N-1: every index is in exactly one bucket, the
\* bucket sizes sum to N, and there are as many buckets as distinct rows
\* (two buckets, of sizes 1 and 2, for [[1,0],[1,0],[0,1]]).
C5_BucketsPartitionIndices ==
    dose_pc = "returned" =>
        /\ \A n \in 0..(Len(otnal_doses) - 1) :
              Cardinality({k \in 1..Len(indices_for_unique_rows) : InBucket(k, n)}) = 1
        /\ SumOfSizes(indices_for_unique_rows) = Len(otnal_doses)
        /\ Len(indices_for_unique_rows) =
              Cardinality({otnal_doses[n] : n \in 1..Len(otnal_doses)})
        /\ otnal_doses = << <<Num(1), Num(0)>>, <<Num(1), Num(0)>>, <<Num(0), Num(1)>> >>
              => indices_for_unique_rows = << <<2>>, <<0, 1>> >>

\* C6 (as claimed): the distinct rows are numbered 0..K-1 in lexicographic
\* order, and after the return every entry of session_category is resolved:
\* session_category[n] is the id k with n in indices_for_unique_rows[k] and
\* unique_rows[k] the row n of the input; no entry is left at its initial
\* NaN.
C6_EveryCategoryResolved ==
    dose_pc = "returned" =>
        /\ Len(indices_for_unique_rows) = Len(unique_rows)
        /\ \A k \in 1..(Len(unique_rows) - 1) : RowBefore(unique_rows[k], unique_rows[k + 1])
        /\ \A n \in 1..Len(otnal_doses) :
              /\ ~session_category[n].nan
              /\ session_category[n].val \in 0..(Len(unique_rows) - 1)
              /\ InBucket(session_category[n].val + 1, n - 1)
              /\ unique_rows[session_category[n].val + 1] = otnal_doses[n]

\* C7 (as claimed): find_saccades given zero-length x and y returns the
\* empty list and raises nothing.
C7_ZeroLengthReturnsEmpty ==
    (x = <<>> /\ y = <<>>) =>
        /\ fs_pc # "raised"
        /\ start_stops = <<>>

\* The file is missing, present more than once, or fails to parse.
BadFile(file) == file.n_files # 1 \/ file.load # "ok"
\* The events found in the session at position k of the input.
EventsOf(k) == {i \in 1..Len(hist_origin) : hist_origin[i][1] = k}
\* extract_saccades_with_labels raised while in the session at position k.
RaisedIn(k) == pc = "raised" /\ Len(hist_sessions) = k

\* C8 (as claimed): for a session whose dose, run or calibration file is
\* missing, present more than once or unparsable, metadata extraction does
\* not abort: the data of that file become the empty value (None fields,
\* num_runs = 0; no run boundaries from get_runs_data), there is exactly one
\* record per session, in input order, and the session, once passed to
\* extract_saccades_with_labels, yields no event and raises nothing.
C8_BadFileSessionYieldsNoEvents ==
    /\ meta_pc \in {"session_loop", "returned"}
    /\ runs_pc = "call" => Len(meta_info_list) = Len(hist_folders)
    /\ runs_pc = "returned" =>
            (BadFile(hist_folders[1].runs) => "startS" \notin runs_dict.keys)
    /\ \A k \in 1..Len(meta_info_list) :
            LET folder == hist_folders[k]
                meta_info == meta_info_list[k]
            IN  /\ meta_info.session_name = k
                /\ BadFile(folder.metaInfo) =>
                        /\ meta_info.monkey_1.none /\ meta_info.monkey_2.none
                        /\ meta_info.OT_dose.none /\ meta_info.NAL_dose.none
                /\ BadFile(folder.runs) =>
                        /\ meta_info.startS.none /\ meta_info.stopS.none
                        /\ meta_info.num_runs = 0
                /\ BadFile(folder.farPlaneCal) =>
                        /\ meta_info.eye_bbox.none /\ meta_info.face_bbox.none
                        /\ meta_info.left_obj_bbox.none
                        /\ meta_info.right_obj_bbox.none
                /\ (BadFile(folder.metaInfo) \/ BadFile(folder.runs)
                        \/ BadFile(folder.farPlaneCal)) =>
                        /\ EventsOf(k) = {}
                        /\ ~RaisedIn(k)

\* C9: with x and y of different shapes find_saccades raises at its
\* assertion: the smoothing function is never invoked, no velocity, norm or
\* mask is computed and nothing is returned.
C9_ShapeMismatchFailsFirst ==
    Len(x) # Len(y) =>
        /\ fs_pc \in {"assert", "raised"}
        /\ smooth_calls = 0
        /\ x0 = <<>> /\ y0 = <<>>
        /\ vx = <<>> /\ vy = <<>>
        /\ vel_norm = <<>> /\ above_thresh = <<>>
        /\ start_stops = <<>>

\* x and y of different non-zero lengths, and the call has raised.
C9_Witness ==
    /\ fs_pc = "raised"
    /\ Len(x) # Len(y)
    /\ Len(x) >= 2 /\ Len(y) >= 2

\* Sample k (0-based) has its velocity norm in [vel_thresh[0], vel_thresh[1]],
\* both bounds included.
InBand(k) ==
    /\ vel_thresh[1] * vel_thresh[1] * 4 * sr * sr <= vel_norm[k + 1]
    /\ vel_norm[k + 1] <= vel_thresh[2] * vel_thresh[2] * 4 * sr * sr

\* Samples s..e (0-based) are a maximal contiguous run of samples in the band.
MaximalBandRun(s, e) ==
    /\ \A k \in s..e : InBand(k)
    /\ s = 0 \/ ~InBand(s - 1)
    /\ e = Len(vel_norm) - 1 \/ ~InBand(e + 1)

RunPositionsOf(r) ==
    BoolIndex(positions,
              [i \in 1..Len(time_vec) |->
                  time_vec[i] > info.startS.val[r + 1]
                  /\ time_vec[i] <= info.stopS.val[r + 1]])
\* The (start, stop) pairs find_saccades returns for run r.
PairsOf(r) ==
    LET pars == fetch_default_saccade_pars
        rp == RunPositionsOf(r)
    IN  find_saccades(px2deg(Column(rp, 1)), px2deg(Column(rp, 2)),
                      info.sampling_rate, pars.vel_thresh, pars.min_samples,
                      pars.smooth_func).start_stops
\* The places in saccades of the events of run r of that session, ascending.
EventPlacesOf(r) ==
    BoolIndex([i \in 1..Len(saccades) |-> i],
              [i \in 1..Len(saccades) |->
                  hist_origin[i] = <<Len(hist_sessions), r>>])

\* C11: for every run gone through, extract_saccade_positions gave one
\* event per (start, stop) pair, in the order of the pairs, the event of a
\* pair being the stop - start + 1 rows start..stop (run-local, stop
\* included) of the run's positions as they came in, in pixels and
\* unsmoothed; and a run iteration leaves the positions as they were.
C11_EventsAreInclusivePixelSlices ==
    /\ [](~info.startS.none /\ ~info.stopS.none =>
            \A r \in 0..(run - 1) :
                LET places == EventPlacesOf(r)
                    pairs == PairsOf(r)
                    rp == RunPositionsOf(r)
                IN  /\ Len(places) = Len(pairs)
                    /\ \A k \in 1..Len(pairs) :
                        LET event == saccades[places[k]]
                            start == pairs[k][1]
                            stop == pairs[k][2]
                        IN  /\ Len(event) = stop - start + 1
                            /\ \A j \in 0..(stop - start) :
                                    event[j + 1] = rp[start + j + 1])
    /\ [][pc = "run_loop" => positions' = positions]_vars

\* A run gave two events, the second of two rows or more that begins after
\* the first row of the run and holds a pixel coordinate that its
\* degree-converted value differs from.
C11_Witness ==
    /\ ~info.startS.none
    /\ run >= 1
    /\ Len(EventPlacesOf(0)) = 2
    /\ PairsOf(0)[2][1] > 0
    /\ Len(saccades[EventPlacesOf(0)[2]]) >= 2
    /\ \E j \in 1..Len(saccades[EventPlacesOf(0)[2]]) :
            /\ saccades[EventPlacesOf(0)[2]][j][1] = MaxPx
            /\ px2deg(<<MaxPx>>)[1] # MaxPx

\* The session index (0-based position in session_paths) of entry k of the
\* list, and the category the entry carries.
IdxOf(k) == labelled_gaze_positions[k][2].session_name - 1
CategoryOf(k) == labelled_gaze_positions[k][2].category
\* The session indices the dose buckets hold.
Bucketed == {n \in 0..(Len(session_paths) - 1) :
                \E b \in 1..Len(indices_for_unique_rows) : InBucket(b, n)}
\* Some session of session_paths is not in the list.
SomeSessionOmitted ==
    \E n \in 0..(Len(session_paths) - 1) :
        \A k \in 1..Len(labelled_gaze_positions) : IdxOf(k) # n
\* The categories of the sessions do not ascend along session_paths.
CategoriesOutOfInputOrder ==
    \E a \in 1..Len(session_paths) : \E b \in 1..Len(session_paths) :
        /\ a < b
        /\ ~session_category[a].nan /\ ~session_category[b].nan
        /\ session_category[a].val > session_category[b].val
\* Some entry's position in the list is not its position in session_paths.
SomeOrdinalDiffers ==
    \E k \in 1..Len(labelled_gaze_positions) : k # IdxOf(k) + 1

\* What C12 says of the list and of the ordinals, short of its last clause:
\* no session index twice; ascending category, and ascending index within a
\* category; every entry with the category of its own session; once the
\* function has returned the list holds the bucketed sessions whose one gaze
\* file loaded and no other; and extract_saccades_with_labels numbers the
\* sessions by their position in the list.
ListIsByCategoryThenIndex ==
    /\ \A j \in 1..Len(labelled_gaze_positions) :
       \A k \in 1..Len(labelled_gaze_positions) :
            j < k =>
                /\ IdxOf(j) # IdxOf(k)
                /\ \/ CategoryOf(j).val < CategoryOf(k).val
                   \/ /\ CategoryOf(j).val = CategoryOf(k).val
                      /\ IdxOf(j) < IdxOf(k)
    /\ \A k \in 1..Len(labelled_gaze_positions) :
            /\ ~CategoryOf(k).nan
            /\ CategoryOf(k) = session_category[IdxOf(k) + 1]
            /\ labelled_gaze_positions[k][1] = session_paths[IdxOf(k) + 1].content
    /\ lg_pc = "returned" =>
            {IdxOf(k) : k \in 1..Len(labelled_gaze_positions)} =
                {n \in Bucketed : /\ session_paths[n + 1].n_files = 1
                                  /\ session_paths[n + 1].load = "ok"}
    /\ session_identifier >= 1 =>
            /\ session_identifier <= Len(labelled_gaze_positions)
            /\ info.session_name = IdxOf(session_identifier) + 1
            /\ positions = labelled_gaze_positions[session_identifier][1]
    /\ \A i \in 1..Len(saccade_labels) :
            saccade_labels[i][1] = CategoryOf(saccade_labels[i][2])

\* C12 (as claimed): the list holds each session index at most once, by
\* ascending category id and ascending index within a category; a session
\* with no, several or an unloadable gaze file is left out and the batch
\* goes on; every entry carries the category of its own session; the
\* session ordinal is the position in the list, and it differs from the
\* position in session_paths whenever a session was omitted or the
\* categories are not in input order.
C12_OrdinalDiffersWheneverOmittedOrReordered ==
    /\ ListIsByCategoryThenIndex
    /\ (/\ lg_pc = "returned"
        /\ labelled_gaze_positions # <<>>
        /\ SomeSessionOmitted \/ CategoriesOutOfInputOrder)
       => SomeOrdinalDiffers

\* C12 (amended): as above, but the ordinal can differ from the position in
\* session_paths only if a session was omitted or the categories are not
\* in input order; it need not differ then.
C12_OrdinalDiffersOnlyIfOmittedOrReordered ==
    /\ ListIsByCategoryThenIndex
    /\ (lg_pc = "returned" /\ SomeOrdinalDiffers)
       => (SomeSessionOmitted \/ CategoriesOutOfInputOrder)

\* Three sessions went through extract_saccades_with_labels after the first
\* folder of session_paths was left out for its gaze files and the
\* categories did not follow the input order: an event is labelled with an
\* ordinal that is not its session's position in session_paths.
C12_Witness ==
    /\ pc = "returned"
    /\ lg_pc = "returned"
    /\ Len(session_paths) = 3
    /\ Len(labelled_gaze_positions) = 2
    /\ session_paths[1].n_files = 2
    /\ CategoriesOutOfInputOrder
    /\ \E i \in 1..Len(saccade_labels) :
            saccade_labels[i][2] # IdxOf(saccade_labels[i][2]) + 1

====
